---- MODULE Spec2Model ----
(***************************************************************************)
(* Model of the TypewriterEffect engine (typewriter.js): element tracking, *)
(* visibility-triggered staggered typing, group-synchronised looping and   *)
(* teardown, driven by the host's timer queue.                             *)
(*                                                                         *)
(* Texts are sequences of one-character strings.  Time is discrete; the    *)
(* host keeps its timers ordered by deadline (ties in scheduling order)    *)
(* and runs one callback to completion at a time; a due callback runs      *)
(* before the clock moves on.                                              *)
(***************************************************************************)
EXTENDS Integers, Sequences, FiniteSets, TLC

VARIABLES
  doc,          \* the page: the [data-typewriter] elements in document order
  opts,         \* constructor options (typingSpeed, staggerDelay, loopDelay)
  phase,        \* "constructed" until init() has run, then "ready"
  elements,     \* this.elements: the tracking objects
  observed,     \* slide containers handed to observer.observe()
  timers,       \* the host's outstanding setTimeout timers, in firing order
  timeoutIds,   \* this.timeoutIds
  nextId,       \* the handle the next setTimeout call returns
  lastOp,       \* history: the operation that produced this state
  sinceTrigger, \* history: time since the slide's last visibility trigger
  steps,        \* history: typing steps of an element since its last start
  triggers,     \* history: visibility triggers delivered so far
  now,          \* history: the clock, advanced by ClockTick only
  failed,       \* history: elements whose chain was stopped by an exception
  destroyed,    \* history: destroy() has been called
  user,         \* AuthManager: this.user
  storage,      \* localStorage item 'kernwerk_auth'
  nav,          \* style.display of the .nav-auth-* elements
  authLoaded,   \* an AuthManager has been constructed on this page
  lastAuth,     \* history: the last AuthManager call and its result
  persisted,    \* history: the session left by the last call that returned true
  modal,        \* AuthModal: class 'active' and the pending delayed close() calls
  lastSubmit,   \* history: the fields of the last form submit and what it did
  page,         \* the navigation links of the document
  lastKey,      \* the keydown event being dispatched, and history: its clicks
  parallax,     \* the closure of initParallaxAndReveal, its listeners and clock
  reveal,       \* the reveal items: is-visible class, observed, reported
  popup,        \* the profile popup has the class active
  overflow      \* document.body.style.overflow

\* the typewriter engine and its history
twVars == <<doc, opts, phase, elements, observed, timers, timeoutIds, nextId,
            lastOp, sinceTrigger, steps, triggers, now, failed, destroyed>>

\* the rest of the page
envVars == <<user, storage, nav, authLoaded, lastAuth, persisted>>

modalVars == <<modal, lastSubmit>>
keyVars == <<page, lastKey>>
scrollVars == <<parallax, reveal>>
overlayVars == <<popup, overflow>>
pageVars == <<modalVars, keyVars, scrollVars, overlayVars>>

vars == <<twVars, envVars, pageVars, destroyed>>

(***************************************************************************)
(* Bounds                                                                  *)
(***************************************************************************)
MaxTimers == 12         \* setTimeout calls per behaviour
MaxTriggers == 2        \* visibility triggers per behaviour
TimelineEnd == 130      \* last clock value of the timeline specification

(***************************************************************************)
(* Values                                                                  *)
(***************************************************************************)
Null == 0               \* loopTimeout: null
NoSlide == 0            \* closest() found no slide / help-topic container
FirstId == 1            \* first handle returned by setTimeout

\* Pages: each entry is one [data-typewriter] element, with the value of the
\* attribute and its enclosing container (NoSlide when there is none).
Docs ==
  { << >>,
    << [text |-> <<"A", "B">>, slide |-> 1], [text |-> <<"C">>, slide |-> 1] >>,
    << [text |-> <<"A">>, slide |-> 1], [text |-> <<"B">>, slide |-> 2] >>,
    << [text |-> << >>, slide |-> 1], [text |-> <<"A">>, slide |-> 1],
       [text |-> <<"B">>, slide |-> NoSlide] >>,
    << [text |-> << >>, slide |-> 1], [text |-> <<"B">>, slide |-> NoSlide] >> }

\* Options handed to the constructor (all positive, so `||` keeps them).
Options ==
  { [typingSpeed |-> 1, staggerDelay |-> 2, loopDelay |-> 2],
    [typingSpeed |-> 2, staggerDelay |-> 1, loopDelay |-> 3] }

Slides == {1, 2}

NoOp == [op |-> "new", el |-> 0, slide |-> NoSlide, flag |-> FALSE, n |-> 0]

NoUser == << >>         \* this.user = null; a user object u is << u >>
NoItem == << >>         \* localStorage.getItem(...) returns null
NavCss == [loggedOut |-> "css", loggedIn |-> "css"]   \* no inline display yet
NoCall == [op |-> "none", ok |-> TRUE]
NotKnown == [known |-> FALSE, user |-> NoUser]   \* no call has returned true yet

(***************************************************************************)
(* init(): grouping by container and creation of the tracking objects      *)
(***************************************************************************)
Indices(d) == [i \in 1..Len(d) |-> i]

\* variant: an element without container opens a group of its own
RECURSIVE SlideOrderAll(_, _, _)
SlideOrderAll(d, i, acc) ==
  IF i > Len(d) THEN acc
  ELSE IF ~ \E k \in 1..Len(acc) : acc[k] = d[i].slide
       THEN SlideOrderAll(d, i + 1, Append(acc, d[i].slide))
       ELSE SlideOrderAll(d, i + 1, acc)

\* slideGroups keys in Map insertion order: containers by first appearance
RECURSIVE SlideOrder(_, _, _)
SlideOrder(d, i, acc) ==
  IF i > Len(d) THEN acc
  ELSE IF d[i].slide # NoSlide /\ ~ \E k \in 1..Len(acc) : acc[k] = d[i].slide
       THEN SlideOrder(d, i + 1, Append(acc, d[i].slide))
       ELSE SlideOrder(d, i + 1, acc)

\* slideGroups.get(slide): the elements of the container in document order
ElementsInSlide(d, s) == SelectSeq(Indices(d), LAMBDA i : d[i].slide = s)

\* variant: staggerIndex counts from one
NewItemOneBased(d, s, grp, k) ==
  [ element      |-> grp[k],
    fullText     |-> d[grp[k]].text,
    currentText  |-> << >>,
    isVisible    |-> FALSE,
    slideElement |-> s,
    staggerIndex |-> k,
    loopTimeout  |-> Null,
    textContent  |-> << >>,
    cursor       |-> FALSE ]

\* this.elements.push({...}) for the k-th element of the container
NewItem(d, s, grp, k) ==
  [ element      |-> grp[k],
    fullText     |-> d[grp[k]].text,
    currentText  |-> << >>,
    isVisible    |-> FALSE,
    slideElement |-> s,
    staggerIndex |-> k - 1,
    loopTimeout  |-> Null,
    textContent  |-> << >>,
    cursor       |-> FALSE ]

\* the tracking objects pushed for one container: only non-empty texts
RECURSIVE ItemsOfSlide(_, _, _, _)
ItemsOfSlide(d, s, grp, k) ==
  IF k > Len(grp) THEN << >>
  ELSE (IF Len(d[grp[k]].text) > 0 THEN << NewItem(d, s, grp, k) >> ELSE << >>)
       \o ItemsOfSlide(d, s, grp, k + 1)

RECURSIVE ItemsOfSlides(_, _, _)
ItemsOfSlides(d, order, n) ==
  IF n > Len(order) THEN << >>
  ELSE ItemsOfSlide(d, order[n], ElementsInSlide(d, order[n]), 1)
       \o ItemsOfSlides(d, order, n + 1)

TrackedItems(d) ==
  IF Len(d) = 0 THEN << >> ELSE ItemsOfSlides(d, SlideOrder(d, 1, << >>), 1)

ObservedSlides(els) == { els[i].slideElement : i \in 1..Len(els) }

(***************************************************************************)
(* The host's timers                                                       *)
(***************************************************************************)
NewTimer(id, kind, el, delay) ==
  [id |-> id, kind |-> kind, el |-> el, rem |-> delay]

\* setTimeout: the new timer runs after every timer whose deadline is not later
SetTimeout(q, t) ==
  SelectSeq(q, LAMBDA u : u.rem <= t.rem) \o << t >>
    \o SelectSeq(q, LAMBDA u : u.rem > t.rem)

RECURSIVE SetTimeouts(_, _)
SetTimeouts(q, ts) ==
  IF Len(ts) = 0 THEN q ELSE SetTimeouts(SetTimeout(q, Head(ts)), Tail(ts))

\* clearTimeout for a set of handles
ClearTimeouts(q, ids) == SelectSeq(q, LAMBDA u : u.id \notin ids)

Outstanding(q, kinds, el) ==
  { k \in 1..Len(q) : q[k].kind \in kinds /\ q[k].el = el }

TimerIds(q) == { q[k].id : k \in 1..Len(q) }

(***************************************************************************)
(* Helpers over the tracking objects                                       *)
(***************************************************************************)
\* variant: the filter on the slide is missing
SlideItemsAll(els, s) == Indices(els)

\* this.elements.filter(item => item.slideElement === entry.target)
SlideItems(els, s) ==
  SelectSeq(Indices(els), LAMBDA i : els[i].slideElement = s)

\* variant: some() in place of every()
AllDoneAny(els, slideItems) ==
  \E k \in 1..Len(slideItems) :
    Len(els[slideItems[k]].currentText) = Len(els[slideItems[k]].fullText)

\* slideItems.every(si => si.currentText.length === si.fullText.length)
AllDone(els, slideItems) ==
  \A k \in 1..Len(slideItems) :
    Len(els[slideItems[k]].currentText) = Len(els[slideItems[k]].fullText)

\* variant: the index is not advanced
NextCharFirst(item) == item.fullText[1]

\* item.fullText[item.currentText.length]
NextChar(item) == item.fullText[Len(item.currentText) + 1]

\* variant: one-based stagger position
StartDelayNext(item, o) == (item.staggerIndex + 1) * o.staggerDelay

\* item.staggerIndex * this.staggerDelay
StartDelay(item, o) == item.staggerIndex * o.staggerDelay

\* variant: the trigger does not clear pending loop timers
LoopHandlesNone(els, slideItems) == {}

\* variant: the trigger clears every tracked timer
LoopHandlesEvery(els, slideItems) == timeoutIds

\* the loop handles cancelled by a visibility trigger
LoopHandles(els, slideItems) ==
  { els[slideItems[k]].loopTimeout : k \in 1..Len(slideItems) } \ {Null}

\* history only: sinceTrigger saturates above every start delay
SinceCap == opts.staggerDelay * Len(doc)

(***************************************************************************)
(* Initial state: the engine as constructed, before init()                 *)
(***************************************************************************)
\* the typewriter engine as constructed
EngineNew ==
  /\ phase = "constructed"
  /\ elements = << >>
  /\ observed = {}
  /\ timers = << >>
  /\ timeoutIds = {}
  /\ nextId = FirstId
  /\ lastOp = NoOp
  /\ sinceTrigger = [s \in Slides |-> SinceCap]
  /\ steps = << >>
  /\ triggers = 0
  /\ now = 0
  /\ failed = {}
  /\ destroyed = FALSE

\* a page on which no AuthManager runs
AuthIdle ==
  /\ user = NoUser
  /\ storage = NoItem
  /\ nav = NavCss
  /\ authLoaded = FALSE
  /\ lastAuth = NoCall
  /\ persisted = NotKnown

\* no form is open
NoSubmit ==
  [form |-> "none", name |-> << >>, email |-> << >>, password |-> << >>,
   confirm |-> << >>, terms |-> FALSE, saved |-> FALSE, n |-> 0]

\* the navigation: [K] home, [L] login while logged out, [L] logout while
\* logged in.  The two [L] links come in either order, and the nav-auth-*
\* class sits on the link itself (onLink) or on an element around it.
LoginFirst ==
  << [href |-> "/", hotkey |-> "k", cls |-> "always"],
     [href |-> "/login", hotkey |-> "l", cls |-> "loggedOut"],
     [href |-> "/logout", hotkey |-> "l", cls |-> "loggedIn"] >>

LogoutFirst ==
  << [href |-> "/", hotkey |-> "k", cls |-> "always"],
     [href |-> "/logout", hotkey |-> "l", cls |-> "loggedIn"],
     [href |-> "/login", hotkey |-> "l", cls |-> "loggedOut"] >>

Pages ==
  { [links |-> l, onLink |-> b] : l \in {LoginFirst, LogoutFirst},
                                  b \in BOOLEAN }

\* Date.now() when the page loads
LoadTime == 1000

\* the three copies of initParallaxAndReveal: part_002 and parallax-reveal.js
\* are alike, the one in auth-modal.js also registers debugLogLayout
Copies == {"parallax-reveal.js", "auth-modal.js"}

RevealItems == 1..2

\* before the script has run: let currentArtId = null, let lastSwitchTs = 0
Loading(copy, reduced, artLogo) ==
  [phase |-> "loading", copy |-> copy, prefersReducedMotion |-> reduced,
   artLogo |-> artLogo, currentArtId |-> "null", lastSwitchTs |-> 0,
   ticking |-> FALSE, frames |-> 0, handlers |-> {}, clock |-> LoadTime,
   calls |-> << >>, ranInFrame |-> 0]

NoReveal == [visible |-> {}, observed |-> {}, reported |-> {}]

ScrollIdle ==
  /\ parallax = Loading("parallax-reveal.js", FALSE, TRUE)
  /\ reveal = NoReveal

NoKey ==
  [key |-> "", tag |-> "BODY", pending |-> 0, clicks |-> << >>, shown |-> {},
   loggedIn |-> FALSE, n |-> 0]

\* no overlay is open and the body scrolls
OverlayIdle ==
  /\ popup = FALSE
  /\ overflow = ""

PageIdle ==
  /\ modal = [active |-> FALSE, closeTimers |-> 0]
  /\ lastSubmit = NoSubmit
  /\ page = [links |-> LoginFirst, onLink |-> TRUE]
  /\ lastKey = NoKey
  /\ ScrollIdle
  /\ OverlayIdle

Init ==
  /\ doc \in Docs
  /\ opts \in Options
  /\ EngineNew
  /\ AuthIdle
  /\ PageIdle

(***************************************************************************)
(* init() and setupIntersectionObserver()                                  *)
(***************************************************************************)
EngineInit ==
  /\ phase = "constructed"
  /\ phase' = "ready"
  /\ elements' = TrackedItems(doc)
  /\ observed' = IF Len(doc) = 0 THEN {} ELSE ObservedSlides(elements')
  /\ steps' = [i \in 1..Len(elements') |-> 0]
  /\ lastOp' = [NoOp EXCEPT !.op = "init"]
  /\ UNCHANGED <<doc, opts, timers, timeoutIds, nextId, sinceTrigger, triggers>>
  /\ UNCHANGED <<now, failed, envVars, pageVars, destroyed>>

(***************************************************************************)
(* IntersectionObserver callback for one entry                             *)
(***************************************************************************)
\* variant: the reset leaves the displayed text in place
ResetItemKeepsSink(item) ==
  [item EXCEPT !.isVisible = TRUE, !.currentText = << >>]

\* reset of one item when its slide becomes visible
ResetItem(item) ==
  [item EXCEPT !.isVisible = TRUE, !.currentText = << >>,
               !.textContent = << >>, !.cursor = FALSE]

\* the start timers of a trigger, one per slide item, in forEach order
StartTimers(els, slideItems, o, id0) ==
  [k \in 1..Len(slideItems) |->
     NewTimer(id0 + k - 1, "start", slideItems[k],
              StartDelay(els[slideItems[k]], o))]

\* variant: leaving the viewport hides the items of the slide
NotIntersectingHides(els, s) ==
  [i \in 1..Len(els) |->
     IF els[i].slideElement = s THEN [els[i] EXCEPT !.isVisible = FALSE]
     ELSE els[i]]

\* an entry with isIntersecting false: the callback has no else branch
NotIntersecting(els, s) == els

Intersect(s, isIntersecting) ==
  /\ phase = "ready"
  /\ s \in observed
  /\ lastOp' = [NoOp EXCEPT
                  !.op = "intersect", !.slide = s, !.flag = isIntersecting,
                  !.n = IF isIntersecting
                        THEN Cardinality(TimerIds(timers)
                               \cap LoopHandles(elements, SlideItems(elements, s)))
                        ELSE 0]
  /\ IF isIntersecting
     THEN LET slideItems == SlideItems(elements, s)
              n == Len(slideItems)
              handles == LoopHandles(elements, slideItems)
          IN /\ nextId + n <= MaxTimers + 1
             /\ triggers < MaxTriggers
             /\ triggers' = triggers + 1
             /\ elements' = [i \in 1..Len(elements) |->
                               IF elements[i].slideElement = s
                               THEN ResetItem(elements[i]) ELSE elements[i]]
             /\ timers' = SetTimeouts(ClearTimeouts(timers, handles),
                                      StartTimers(elements, slideItems, opts, nextId))
             /\ timeoutIds' = (timeoutIds \ handles) \cup (nextId..(nextId + n - 1))
             /\ nextId' = nextId + n
             /\ sinceTrigger' = [sinceTrigger EXCEPT ![s] = 0]
     ELSE /\ elements' = NotIntersecting(elements, s)
          /\ UNCHANGED <<timers, timeoutIds, nextId, sinceTrigger, triggers>>
  /\ failed' = IF isIntersecting
               THEN { i \in failed : elements[i].slideElement # s }
               ELSE failed
  /\ UNCHANGED <<doc, opts, phase, observed, steps, now, envVars, pageVars, destroyed>>

(***************************************************************************)
(* typeText(item, slideItems), run by a start, restart or step timer       *)
(***************************************************************************)
\* variant: only the first item of the slide gets a loop timer
LoopTimersFirstOnly(slideItems, o, id0) ==
  << NewTimer(id0, "loop", slideItems[1], o.loopDelay) >>

\* the loop timers armed when the whole slide is done, in forEach order
LoopTimers(slideItems, o, id0) ==
  [k \in 1..Len(slideItems) |->
     NewTimer(id0 + k - 1, "loop", slideItems[k], o.loopDelay)]

\* si.loopTimeout = setTimeout(...) for every item of the slide
ArmLoop(els, slideItems, id0) ==
  [j \in 1..Len(els) |->
     IF \E k \in 1..Len(slideItems) : slideItems[k] = j
     THEN [els[j] EXCEPT !.loopTimeout =
             id0 + (CHOOSE k \in 1..Len(slideItems) : slideItems[k] = j) - 1]
     ELSE els[j]]

\* q: the timer queue without the timer that is running
TypeText(i, q) ==
  LET item == elements[i]
      slideItems == SlideItems(elements, item.slideElement)
      n == Len(slideItems)
  IN IF ~ item.isVisible
     THEN /\ timers' = q
          /\ lastOp' = [NoOp EXCEPT !.op = "skip", !.el = i]
          /\ UNCHANGED <<elements, timeoutIds, nextId>>
     ELSE IF Len(item.currentText) < Len(item.fullText)
     THEN LET txt == Append(item.currentText, NextChar(item))
          IN /\ elements' = [elements EXCEPT ![i].currentText = txt,
                                             ![i].textContent = txt,
                                             ![i].cursor = TRUE]
             /\ timers' = SetTimeout(q, NewTimer(nextId, "step", i, opts.typingSpeed))
             /\ timeoutIds' = timeoutIds \cup {nextId}
             /\ nextId' = nextId + 1
             /\ lastOp' = [NoOp EXCEPT !.op = "type", !.el = i]
     ELSE LET shown == [elements EXCEPT ![i].textContent = item.fullText,
                                        ![i].cursor = FALSE]
          IN IF AllDone(shown, slideItems) /\ item.loopTimeout = Null
             THEN /\ elements' = ArmLoop(shown, slideItems, nextId)
                  /\ timers' = SetTimeouts(q, LoopTimers(slideItems, opts, nextId))
                  /\ timeoutIds' = timeoutIds \cup (nextId..(nextId + n - 1))
                  /\ nextId' = nextId + n
                  /\ lastOp' = [NoOp EXCEPT !.op = "complete", !.el = i,
                                            !.flag = TRUE]
             ELSE /\ elements' = shown
                  /\ timers' = q
                  /\ lastOp' = [NoOp EXCEPT !.op = "complete", !.el = i]
                  /\ UNCHANGED <<timeoutIds, nextId>>

(***************************************************************************)
(* the loop timer's callback (typeText, lines 592-604)                     *)
(***************************************************************************)
\* variant: the restart timer is not added to timeoutIds
LoopCallbackUntracked(i, q) ==
  /\ elements' = [elements EXCEPT ![i].currentText = << >>,
                                  ![i].textContent = << >>,
                                  ![i].cursor = FALSE,
                                  ![i].loopTimeout = Null]
  /\ timers' = SetTimeout(q, NewTimer(nextId, "restart", i,
                                      StartDelay(elements[i], opts)))
  /\ timeoutIds' = timeoutIds
  /\ nextId' = nextId + 1
  /\ lastOp' = [NoOp EXCEPT !.op = "loop", !.el = i]

LoopCallback(i, q) ==
  /\ elements' = [elements EXCEPT ![i].currentText = << >>,
                                  ![i].textContent = << >>,
                                  ![i].cursor = FALSE,
                                  ![i].loopTimeout = Null]
  /\ timers' = SetTimeout(q, NewTimer(nextId, "restart", i,
                                      StartDelay(elements[i], opts)))
  /\ timeoutIds' = timeoutIds \cup {nextId}
  /\ nextId' = nextId + 1
  /\ lastOp' = [NoOp EXCEPT !.op = "loop", !.el = i]

(***************************************************************************)
(* The host runs the first due timer                                       *)
(***************************************************************************)
TimerFire ==
  /\ Len(timers) > 0
  /\ Head(timers).rem = 0
  /\ IF Head(timers).kind = "loop"
     THEN LoopCallback(Head(timers).el, Tail(timers))
     ELSE TypeText(Head(timers).el, Tail(timers))
  /\ nextId' <= MaxTimers + 1
  /\ steps' = IF lastOp'.op = "type"
              THEN [steps EXCEPT ![lastOp'.el] =
                      IF Head(timers).kind = "step"
                      THEN IF @ <= Len(elements[lastOp'.el].fullText)
                           THEN @ + 1 ELSE @
                      ELSE 1]
              ELSE steps
  /\ failed' = IF Head(timers).kind = "loop"
               THEN failed \ {Head(timers).el} ELSE failed
  /\ UNCHANGED <<doc, opts, phase, observed, sinceTrigger, triggers, now,
                 envVars, pageVars, destroyed>>

(***************************************************************************)
(* One unit of time passes                                                 *)
(***************************************************************************)
PassTime ==
  /\ IF Len(timers) = 0 THEN TRUE ELSE Head(timers).rem > 0
  /\ timers' = [k \in 1..Len(timers) |->
                  [timers[k] EXCEPT !.rem = IF @ > 0 THEN @ - 1 ELSE 0]]
  /\ sinceTrigger' = [s \in Slides |->
                        IF sinceTrigger[s] < SinceCap
                        THEN sinceTrigger[s] + 1 ELSE SinceCap]
  /\ lastOp' = [NoOp EXCEPT !.op = "tick"]
  /\ UNCHANGED <<doc, opts, phase, elements, observed, timeoutIds, nextId,
                 steps, triggers, failed, envVars, pageVars, destroyed>>

Tick == PassTime /\ UNCHANGED now

\* the same step with the clock running
ClockTick ==
  /\ now < TimelineEnd
  /\ PassTime
  /\ now' = now + 1

(***************************************************************************)
(* destroy()                                                               *)
(***************************************************************************)
\* this.timeoutIds.forEach(id => clearTimeout(id))
DestroyTimers(q, ids) == ClearTimeouts(q, ids)

\* variant: the set is not cleared
DestroyIdsKeep(ids) == ids

\* this.timeoutIds.clear()
DestroyIds(ids) == {}

Destroy ==
  /\ timers' = DestroyTimers(timers, timeoutIds)
  /\ timeoutIds' = DestroyIds(timeoutIds)
  /\ lastOp' = [NoOp EXCEPT !.op = "destroy",
                            !.flag = (lastOp.op = "destroy"),
                            !.n = Len(timers) - Len(timers')]
  /\ destroyed' = TRUE
  /\ UNCHANGED <<doc, opts, phase, elements, observed, nextId, sinceTrigger,
                 steps, triggers, now, failed, envVars, pageVars>>

Next ==
  \/ EngineInit
  \/ \E s \in Slides, b \in BOOLEAN : Intersect(s, b)
  \/ TimerFire
  \/ Tick
  \/ Destroy

Spec == Init /\ [][Next]_vars

(***************************************************************************)
(* Timeline: one slide with "Hi" and "Yo", triggered once at time 0, with  *)
(* typingSpeed 10, staggerDelay 5 and loopDelay 100                        *)
(***************************************************************************)
TimelineDoc ==
  << [text |-> <<"H", "i">>, slide |-> 1], [text |-> <<"Y", "o">>, slide |-> 1] >>

TimelineOpts == [typingSpeed |-> 10, staggerDelay |-> 5, loopDelay |-> 100]

InitTimeline ==
  /\ doc = TimelineDoc
  /\ opts = TimelineOpts
  /\ EngineNew
  /\ AuthIdle
  /\ PageIdle

NextTimeline ==
  \/ EngineInit
  \/ (triggers = 0 /\ Intersect(1, TRUE))
  \/ TimerFire
  \/ (triggers = 1 /\ ClockTick)

SpecTimeline == InitTimeline /\ [][NextTimeline]_vars

(***************************************************************************)
(* A typeText call that throws: the catch at the end of typeText logs the  *)
(* error, and whatever ran before the throw stays done.  The page is one   *)
(* slide with "AB" and "C", each slide is triggered once, and at most one  *)
(* callback throws.                                                        *)
(***************************************************************************)
ThrowPoints == {"text", "cursor", "schedule", "final"}

\* at: the statement that throws: the write of textContent ("text"), the
\* creation or append of the cursor span ("cursor"), setTimeout
\* ("schedule"), or the write of the full text in the else branch ("final")
TypeTextThrows(i, q, at) ==
  LET item == elements[i]
      txt == Append(item.currentText, NextChar(item))
  IN /\ item.isVisible
     /\ IF Len(item.currentText) < Len(item.fullText)
        THEN /\ at \in {"text", "cursor", "schedule"}
             /\ elements' =
                  [elements EXCEPT
                     ![i].currentText = txt,
                     ![i].textContent = IF at = "text" THEN @ ELSE txt,
                     ![i].cursor = IF at = "text" THEN @
                                   ELSE at = "schedule"]
        ELSE /\ at = "final"
             /\ elements' = elements
     /\ timers' = q
     /\ lastOp' = [NoOp EXCEPT !.op = "throw", !.el = i]
     /\ UNCHANGED <<timeoutIds, nextId>>

TimerFireThrows ==
  /\ failed = {}
  /\ Len(timers) > 0
  /\ Head(timers).rem = 0
  /\ Head(timers).kind # "loop"
  /\ \E at \in ThrowPoints :
       TypeTextThrows(Head(timers).el, Tail(timers), at)
  /\ failed' = {Head(timers).el}
  /\ UNCHANGED <<doc, opts, phase, observed, sinceTrigger, steps, triggers,
                 now, envVars, pageVars, destroyed>>

\* the slide becomes visible for the first time
FirstTrigger(s) ==
  /\ \A i \in 1..Len(elements) :
       elements[i].slideElement = s => ~ elements[i].isVisible
  /\ Intersect(s, TRUE)

FailDoc ==
  << [text |-> <<"A", "B">>, slide |-> 1], [text |-> <<"C">>, slide |-> 1] >>

InitFail ==
  /\ doc = FailDoc
  /\ opts \in Options
  /\ EngineNew
  /\ AuthIdle
  /\ PageIdle

NextFail ==
  \/ EngineInit
  \/ \E s \in Slides : FirstTrigger(s)
  \/ TimerFire
  \/ TimerFireThrows
  \/ Tick

SpecFail == InitFail /\ [][NextFail]_vars

(***************************************************************************)
(* The endless cycle: every slide is triggered at most once and destroy()  *)
(* is not called.  The engine uses a handle only to clear it and to test   *)
(* item.loopTimeout for null, so the handles of timers that are gone can   *)
(* be forgotten and the outstanding ones renumbered from FirstId in their  *)
(* order of creation; this keeps the handles of an endless run bounded.    *)
(***************************************************************************)
LiveHandles ==
  (TimerIds(timers)
     \cup { elements[i].loopTimeout : i \in 1..Len(elements) }) \ {Null}

Renumbered(id) ==
  IF id = Null THEN Null
  ELSE FirstId + Cardinality({ x \in LiveHandles : x < id })

RecycleHandles ==
  /\ nextId # FirstId + Cardinality(LiveHandles)
  /\ timers' = [k \in 1..Len(timers) |->
                  [timers[k] EXCEPT !.id = Renumbered(@)]]
  /\ elements' = [i \in 1..Len(elements) |->
                    [elements[i] EXCEPT !.loopTimeout = Renumbered(@)]]
  /\ timeoutIds' = { Renumbered(x) : x \in timeoutIds \cap LiveHandles }
  /\ nextId' = FirstId + Cardinality(LiveHandles)
  /\ lastOp' = [NoOp EXCEPT !.op = "recycle"]
  /\ UNCHANGED <<doc, opts, phase, observed, sinceTrigger, steps, triggers,
                 now, failed, envVars, pageVars, destroyed>>

NextLive ==
  \/ EngineInit
  \/ \E s \in Slides : FirstTrigger(s)
  \/ TimerFire
  \/ Tick
  \/ RecycleHandles

\* the host runs every due timer, time passes, and handles never run out
SpecLive ==
  /\ Init
  /\ [][NextLive]_vars
  /\ WF_vars(TimerFire)
  /\ WF_vars(Tick)
  /\ WF_vars(RecycleHandles)

(***************************************************************************)
(* AuthManager (auth-manager.js): the session in this.user, its copy in    *)
(* localStorage under 'kernwerk_auth', and the display of the navigation   *)
(* entries.  A storage call may throw (storage disabled, quota exceeded).  *)
(***************************************************************************)
\* strings are sequences of characters; undefined is no string
Undefined == << "undefined" >>

\* what the forms hand to saveUser
UserData ==
  { [name |-> <<"A", "n", "n">>, email |-> <<"a", "@", "x", ".", "y">>],
    [name |-> Undefined, email |-> <<"b", "@", "x", ".", "y">>] }

\* new Date().toISOString()
LoginTimes == { <<"t", "1">>, <<"t", "2">>, <<"t", "3">> }

Keys == <<"name", "email", "loginTime">>

\* variant: the loginTime property is not written
StringifyNoTime(u) ==
  SelectSeq(<< <<"name", u.name>>, <<"email", u.email>> >>,
            LAMBDA p : p[2] # Undefined)

\* JSON.stringify of a user object: properties in order, undefined ones left out
Stringify(u) ==
  SelectSeq(<< <<"name", u.name>>, <<"email", u.email>>,
               <<"loginTime", u.loginTime>> >>,
            LAMBDA p : p[2] # Undefined)

\* an item that is not JSON
Corrupt == << <<"corrupt", "">> >>

CanParse(item) ==
  \A k \in 1..Len(item) : \E n \in 1..Len(Keys) : item[k][1] = Keys[n]

Property(item, key) ==
  IF \E k \in 1..Len(item) : item[k][1] = key
  THEN item[CHOOSE k \in 1..Len(item) : item[k][1] = key][2]
  ELSE Undefined

\* JSON.parse of an item written by Stringify
Parse(item) ==
  [name |-> Property(item, "name"), email |-> Property(item, "email"),
   loginTime |-> Property(item, "loginTime")]

\* what a page may find in localStorage when it loads
StoredItems ==
  {NoItem, Corrupt,
   Stringify([name |-> <<"A", "n", "n">>, email |-> <<"a", "@", "x", ".", "y">>,
              loginTime |-> <<"t", "1">>]),
   Stringify([name |-> Undefined, email |-> <<"b", "@", "x", ".", "y">>,
              loginTime |-> <<"t", "2">>])}

\* loadUser(): this.user after the call, starting from null
LoadUser(item, throws) ==
  IF throws \/ item = NoItem \/ ~ CanParse(item) THEN NoUser
  ELSE << Parse(item) >>

IsLoggedIn(u) == u # NoUser

UpdateNavigation(u) ==
  IF IsLoggedIn(u) THEN [loggedOut |-> "none", loggedIn |-> "flex"]
  ELSE [loggedOut |-> "flex", loggedIn |-> "none"]

\* new AuthManager(): constructor and init()
AuthManagerNew(throws) ==
  /\ ~ authLoaded
  /\ authLoaded' = TRUE
  /\ user' = LoadUser(storage, throws)
  /\ nav' = UpdateNavigation(user')
  /\ lastAuth' = [op |-> "new", ok |-> ~ throws]
  /\ UNCHANGED <<storage, persisted>>

\* saveUser(userData); throws: localStorage.setItem throws
SaveUser(userData, time, throws) ==
  /\ authLoaded
  /\ user' = << [name |-> userData.name, email |-> userData.email,
                 loginTime |-> time] >>
  /\ IF throws
     THEN /\ lastAuth' = [op |-> "saveUser", ok |-> FALSE]
          /\ UNCHANGED <<storage, nav, persisted>>
     ELSE /\ storage' = Stringify(user'[1])
          /\ nav' = UpdateNavigation(user')
          /\ lastAuth' = [op |-> "saveUser", ok |-> TRUE]
          /\ persisted' = [known |-> TRUE, user |-> user']
  /\ UNCHANGED authLoaded

\* logout(); throws: localStorage.removeItem throws
Logout(throws) ==
  /\ authLoaded
  /\ user' = NoUser
  /\ IF throws
     THEN /\ lastAuth' = [op |-> "logout", ok |-> FALSE]
          /\ UNCHANGED <<storage, nav, persisted>>
     ELSE /\ storage' = NoItem
          /\ nav' = UpdateNavigation(user')
          /\ lastAuth' = [op |-> "logout", ok |-> TRUE]
          /\ persisted' = [known |-> TRUE, user |-> NoUser]
  /\ UNCHANGED authLoaded

\* the page is loaded again: a new document, the same localStorage
Reload ==
  /\ authLoaded
  /\ authLoaded' = FALSE
  /\ user' = NoUser
  /\ nav' = NavCss
  /\ lastAuth' = NoCall
  /\ UNCHANGED <<storage, persisted>>

InitAuth ==
  /\ doc = << >>
  /\ opts = TimelineOpts
  /\ EngineNew
  /\ user = NoUser
  /\ storage \in StoredItems
  /\ nav = NavCss
  /\ authLoaded = FALSE
  /\ lastAuth = NoCall
  /\ persisted = NotKnown
  /\ PageIdle

\* the calls made on window.authManager, with the rest of the page at rest
Construct == \E throws \in BOOLEAN : AuthManagerNew(throws)

CallSaveUser ==
  \E userData \in UserData, time \in LoginTimes, throws \in BOOLEAN :
    SaveUser(userData, time, throws)

CallLogout == \E throws \in BOOLEAN : Logout(throws)

NextAuth ==
  /\ Construct \/ CallSaveUser \/ CallLogout \/ Reload
  /\ UNCHANGED <<twVars, pageVars>>

SpecAuth == InitAuth /\ [][NextAuth]_vars

(***************************************************************************)
(* AuthModal (auth-modal.js): the login and register forms.  A successful  *)
(* submit calls saveUser and closes the modal 1500 ms later.               *)
(***************************************************************************)
MaxSubmits == 2         \* form submits per behaviour

MinPasswordLength == 8  \* password.length < 8

\* String.prototype.trim for the one whitespace character of the inputs
RECURSIVE TrimStart(_)
TrimStart(str) ==
  IF Len(str) = 0 THEN str
  ELSE IF Head(str) = " " THEN TrimStart(Tail(str)) ELSE str

RECURSIVE TrimEnd(_)
TrimEnd(str) ==
  IF Len(str) = 0 THEN str
  ELSE IF str[Len(str)] = " " THEN TrimEnd(SubSeq(str, 1, Len(str) - 1))
       ELSE str

Trim(str) == TrimEnd(TrimStart(str))

\* /^[^\s@]+@[^\s@]+\.[^\s@]+$/ : no whitespace, one '@' after at least one
\* character, and behind it a '.' with at least one character on each side
IsValidEmail(email) ==
  LET ats == { i \in 1..Len(email) : email[i] = "@" }
  IN /\ Len(email) > 0
     /\ \A i \in 1..Len(email) : email[i] # " "
     /\ Cardinality(ats) = 1
     /\ \E a \in ats :
          /\ a > 1
          /\ \E dot \in (a + 2)..(Len(email) - 1) : email[dot] = "."

\* email.split('@')[0]
BeforeAt(email) ==
  IF \E i \in 1..Len(email) : email[i] = "@"
  THEN SubSeq(email, 1,
              (CHOOSE i \in 1..Len(email) :
                 email[i] = "@" /\ \A j \in 1..(i - 1) : email[j] # "@") - 1)
  ELSE email

\* what the user may have typed into the fields
Names == { <<" ">>, <<"A">> }
Emails ==
  { <<" ">>, <<"a", "@", "b">>, <<"@", "b", ".", "c">>,
    <<" ", "a", "@", "b", ".", "c">> }
Passwords ==
  { << >>, <<"p", "p", "p", "p", "p", "p", "p">>,
    <<"p", "p", "p", "p", "p", "p", "p", "p">> }

\* variant: the confirmation is not compared
PasswordsDifferNever(password, passwordConfirm) == FALSE

\* password !== passwordConfirm
PasswordsDiffer(password, passwordConfirm) == password # passwordConfirm

\* the checks of handleLoginSubmit, in its order
LoginPasses(email, password) ==
  /\ ~ (Len(email) = 0 \/ Len(password) = 0)
  /\ IsValidEmail(email)

\* the checks of handleRegisterSubmit, in its order
RegisterPasses(name, email, password, passwordConfirm, terms) ==
  /\ ~ (Len(name) = 0 \/ Len(email) = 0 \/ Len(password) = 0
          \/ Len(passwordConfirm) = 0)
  /\ IsValidEmail(email)
  /\ ~ (Len(password) < MinPasswordLength)
  /\ ~ PasswordsDiffer(password, passwordConfirm)
  /\ terms

\* the end of both handlers: saveUser if window.authManager exists, and the
\* delayed close() in that case only
Submitted(passes, userData, fields) ==
  /\ modal.active
  /\ lastSubmit.n < MaxSubmits
  /\ IF passes /\ authLoaded
     THEN /\ \E time \in LoginTimes, throws \in BOOLEAN :
               SaveUser(userData, time, throws)
          /\ modal' = [modal EXCEPT !.closeTimers = @ + 1]
     ELSE UNCHANGED <<envVars, modal>>
  /\ lastSubmit' = [fields EXCEPT !.saved = passes /\ authLoaded,
                                  !.n = lastSubmit.n + 1]
  /\ UNCHANGED <<twVars, keyVars, scrollVars, overlayVars>>

HandleLoginSubmit(emailValue, password) ==
  LET email == Trim(emailValue)
  IN Submitted(LoginPasses(email, password),
               [name |-> BeforeAt(email), email |-> email],
               [NoSubmit EXCEPT !.form = "login", !.email = emailValue,
                                !.password = password])

HandleRegisterSubmit(nameValue, emailValue, password, passwordConfirm, terms) ==
  LET name == Trim(nameValue)
      email == Trim(emailValue)
  IN Submitted(RegisterPasses(name, email, password, passwordConfirm, terms),
               [name |-> name, email |-> email],
               [NoSubmit EXCEPT !.form = "register", !.name = nameValue,
                                !.email = emailValue, !.password = password,
                                !.confirm = passwordConfirm, !.terms = terms])

\* open(tab), from the login or register entry of the navigation
ModalOpen ==
  /\ modal' = [modal EXCEPT !.active = TRUE]
  /\ overflow' = "hidden"
  /\ UNCHANGED <<twVars, envVars, lastSubmit, keyVars, scrollVars, popup>>

\* close(), from the close button, the overlay or the ESC key
ModalClose ==
  /\ modal.active
  /\ modal' = [modal EXCEPT !.active = FALSE]
  /\ overflow' = ""
  /\ UNCHANGED <<twVars, envVars, lastSubmit, keyVars, scrollVars, popup>>

\* setTimeout(() => this.close(), 1500) runs
CloseTimerFire ==
  /\ modal.closeTimers > 0
  /\ modal' = [active |-> FALSE, closeTimers |-> modal.closeTimers - 1]
  /\ overflow' = ""
  /\ UNCHANGED <<twVars, envVars, lastSubmit, keyVars, scrollVars, popup>>

InitModal == InitAuth

NextModal ==
  \/ (Construct /\ UNCHANGED <<twVars, pageVars>>)
  \/ ModalOpen
  \/ ModalClose
  \/ CloseTimerFire
  \/ \E e \in Emails, p \in Passwords : HandleLoginSubmit(e, p)
  \/ \E n \in Names, e \in Emails, p \in Passwords, c \in Passwords,
        t \in BOOLEAN : HandleRegisterSubmit(n, e, p, c, t)

SpecModal == InitModal /\ [][NextModal]_vars

(***************************************************************************)
(* Hotkeys (hotkeys.js): two keydown listeners are registered on the       *)
(* document, the one of initHotkeys and the one after it; both look up the *)
(* first link with the key as data-hotkey and click it.  A click on the    *)
(* login link opens the modal, a click on the logout link calls logout().  *)
(***************************************************************************)
MaxKeys == 2            \* keydown events per behaviour

Listeners == 2          \* addEventListener('keydown', ...) calls in hotkeys.js

PressedKeys == {"l", "L", "K", "x"}

Tags == {"BODY", "INPUT", "TEXTAREA"}

\* e.key.toLowerCase()
ToLowerCase(key) ==
  CASE key = "L" -> "l"
    [] key = "K" -> "k"
    [] OTHER -> key

\* variant: only INPUT counts as a text field
IsTextFieldInputOnly(tag) == tag = "INPUT"

\* e.target.tagName === 'INPUT' || e.target.tagName === 'TEXTAREA'
IsTextField(tag) == tag = "INPUT" \/ tag = "TEXTAREA"

\* document.querySelector(`a[data-hotkey="${key}"]`): the first match, 0 if none
QuerySelector(pg, key) ==
  IF \E i \in 1..Len(pg.links) : pg.links[i].hotkey = key
  THEN CHOOSE i \in 1..Len(pg.links) :
         /\ pg.links[i].hotkey = key
         /\ \A j \in 1..(i - 1) : pg.links[j].hotkey # key
  ELSE 0

\* link.style.display: set by updateNavigation on the elements of the class
StyleDisplay(pg, i, nv) ==
  IF pg.onLink /\ pg.links[i].cls # "always" THEN nv[pg.links[i].cls]
  ELSE "css"

\* the user presses a key
KeyDown(key, tag) ==
  /\ lastKey.pending = 0
  /\ lastKey.n < MaxKeys
  /\ lastKey' = [key |-> key, tag |-> tag, pending |-> Listeners,
                 clicks |-> << >>,
                 shown |-> { i \in 1..Len(page.links) :
                               StyleDisplay(page, i, nav) # "none" },
                 loggedIn |-> IsLoggedIn(user), n |-> lastKey.n + 1]
  /\ UNCHANGED <<twVars, envVars, modalVars, page, scrollVars, overlayVars>>

\* link.click(): the click listeners of AuthModal.init and setupLogoutHandler
Click(href) ==
  IF href = "/logout" /\ authLoaded
  THEN (\E throws \in BOOLEAN : Logout(throws))
         /\ UNCHANGED <<modal, overflow>>
  ELSE IF href = "/login"
  THEN /\ modal' = [modal EXCEPT !.active = TRUE]
       /\ overflow' = "hidden"
       /\ UNCHANGED envVars
  ELSE UNCHANGED <<envVars, modal, overflow>>

\* the next keydown listener runs
HotkeyListener ==
  LET link == QuerySelector(page, ToLowerCase(lastKey.key))
      display == StyleDisplay(page, link, nav)
  IN /\ lastKey.pending > 0
     /\ IF ~ IsTextField(lastKey.tag) /\ link # 0 /\ display # "none"
        THEN /\ Click(page.links[link].href)
             /\ lastKey' = [lastKey EXCEPT
                  !.pending = @ - 1,
                  !.clicks = Append(@, [link |-> link, display |-> display])]
        ELSE /\ lastKey' = [lastKey EXCEPT !.pending = @ - 1]
             /\ UNCHANGED <<envVars, modal, overflow>>
     /\ UNCHANGED <<twVars, lastSubmit, page, scrollVars, popup>>

InitHotkeys ==
  /\ doc = << >>
  /\ opts = TimelineOpts
  /\ EngineNew
  /\ AuthIdle
  /\ modal = [active |-> FALSE, closeTimers |-> 0]
  /\ lastSubmit = NoSubmit
  /\ page \in Pages
  /\ lastKey = NoKey
  /\ ScrollIdle
  /\ OverlayIdle

\* between two keydown events the user may log in or close the modal
NextHotkeys ==
  \/ /\ lastKey.pending = 0
     /\ \/ (Construct \/ CallSaveUser) /\ UNCHANGED <<twVars, pageVars>>
        \/ ModalClose
  \/ \E key \in PressedKeys, tag \in Tags : KeyDown(key, tag)
  \/ HotkeyListener

SpecHotkeys == InitHotkeys /\ [][NextHotkeys]_vars

(***************************************************************************)
(* Parallax and scroll-reveal (initParallaxAndReveal in part_002,          *)
(* parallax-reveal.js and auth-modal.js).  Time is Date.now(), taken to be *)
(* non-decreasing; an animation frame runs every callback requested since  *)
(* the last frame.                                                         *)
(***************************************************************************)
MaxFrames == 2          \* pending requestAnimationFrame callbacks

MaxClock == 1640        \* Date.now() stops here

SwitchInterval == 420   \* now - lastSwitchTs > 420

ClockSteps == {210, 211}

\* the nearest objective within snapThreshold: none, or its data-art-id
\* ("" when the attribute is missing)
Bests == {"none", "", "ai"}

\* variant: the interval is inclusive
ThrottledInclusive(dateNow, lastSwitchTs) ==
  dateNow - lastSwitchTs >= SwitchInterval

\* now - lastSwitchTs > 420
Throttled(dateNow, lastSwitchTs) == dateNow - lastSwitchTs > SwitchInterval

\* setArtSymbol(id)
SetArtSymbol(p, id) ==
  IF ~ p.artLogo \/ p.currentArtId = id THEN p
  ELSE [p EXCEPT !.currentArtId = id]

\* updateParallax(), with the objective it finds
UpdateParallax(p, best) ==
  LET id == IF best = "" THEN "split" ELSE best
      q == IF best # "none" /\ Throttled(p.clock, p.lastSwitchTs)
           THEN [SetArtSymbol(p, id) EXCEPT
                   !.lastSwitchTs = p.clock,
                   !.calls = Append(@, [t |-> p.clock, id |-> id,
                                        changed |-> SetArtSymbol(p, id) # p])]
           ELSE p
  IN [q EXCEPT !.ticking = FALSE]

RECURSIVE RunCallbacks(_, _)
\* the frame callbacks in bests run one after the other
RunCallbacks(p, bests) ==
  IF bests = << >> THEN p
  ELSE RunCallbacks(UpdateParallax(p, Head(bests)), Tail(bests))

\* variant: an intersecting item stays observed
RevealCallbackKeepsObserving(r, i, isIntersecting) ==
  IF isIntersecting
  THEN [r EXCEPT !.visible = @ \cup {i}, !.reported = @ \cup {i}]
  ELSE r

\* the revealObserver callback for one entry
RevealCallback(r, i, isIntersecting) ==
  IF isIntersecting
  THEN [visible |-> r.visible \cup {i}, observed |-> r.observed \ {i},
        reported |-> r.reported \cup {i}]
  ELSE r

\* the script runs
InitParallaxAndReveal(best) ==
  LET p == [SetArtSymbol(parallax, "split") EXCEPT
              !.phase = "ready",
              !.handlers = IF parallax.copy = "auth-modal.js"
                           THEN {"resize:debugLogLayout"} ELSE {}]
  IN /\ parallax.phase = "loading"
     /\ IF parallax.prefersReducedMotion
        THEN /\ parallax' = p
             /\ reveal' = [reveal EXCEPT !.visible = RevealItems]
        ELSE /\ parallax' = UpdateParallax(
                  [p EXCEPT !.handlers = @ \cup {"scroll:onScroll",
                       "resize:updateParallax", "intersection"}], best)
             /\ reveal' = [reveal EXCEPT !.observed = RevealItems]
     /\ UNCHANGED <<twVars, envVars, modalVars, keyVars, overlayVars>>

\* a scroll event
OnScroll ==
  /\ "scroll:onScroll" \in parallax.handlers
  /\ parallax.frames < MaxFrames
  /\ parallax' = IF parallax.ticking THEN parallax
                 ELSE [parallax EXCEPT !.frames = @ + 1, !.ticking = TRUE]
  /\ UNCHANGED <<twVars, envVars, modalVars, keyVars, overlayVars, reveal>>

\* a resize event: debugLogLayout only logs, updateParallax runs at once
OnResize(best) ==
  /\ parallax.phase = "ready"
  /\ parallax' = IF "resize:updateParallax" \in parallax.handlers
                 THEN UpdateParallax(parallax, best)
                 ELSE parallax
  /\ UNCHANGED <<twVars, envVars, modalVars, keyVars, overlayVars, reveal>>

\* the browser renders a frame and runs the requested callbacks
AnimationFrame(bests) ==
  /\ parallax.frames > 0
  /\ Len(bests) = parallax.frames
  /\ parallax' = [RunCallbacks(parallax, bests) EXCEPT
                    !.frames = 0, !.ranInFrame = parallax.frames]
  /\ UNCHANGED <<twVars, envVars, modalVars, keyVars, overlayVars, reveal>>

\* the observer reports an observed item
Intersection(i, isIntersecting) ==
  /\ "intersection" \in parallax.handlers
  /\ i \in reveal.observed
  /\ reveal' = RevealCallback(reveal, i, isIntersecting)
  /\ UNCHANGED <<twVars, envVars, modalVars, keyVars, overlayVars, parallax>>

\* time passes
DateAdvance(d) ==
  /\ parallax.phase = "ready"
  /\ parallax.clock + d <= MaxClock
  /\ parallax' = [parallax EXCEPT !.clock = @ + d]
  /\ UNCHANGED <<twVars, envVars, modalVars, keyVars, overlayVars, reveal>>

InitScroll ==
  /\ doc = << >>
  /\ opts = TimelineOpts
  /\ EngineNew
  /\ AuthIdle
  /\ modal = [active |-> FALSE, closeTimers |-> 0]
  /\ lastSubmit = NoSubmit
  /\ page = [links |-> LoginFirst, onLink |-> TRUE]
  /\ lastKey = NoKey
  /\ parallax \in { Loading(c, r, a) : c \in Copies, r \in BOOLEAN,
                                       a \in BOOLEAN }
  /\ reveal = NoReveal
  /\ OverlayIdle

NextScroll ==
  \/ \E best \in Bests : InitParallaxAndReveal(best)
  \/ OnScroll
  \/ \E best \in Bests : OnResize(best)
  \/ \E n \in 1..MaxFrames : \E bests \in [1..n -> Bests] :
       AnimationFrame(bests)
  \/ \E i \in RevealItems, isIntersecting \in BOOLEAN :
       Intersection(i, isIntersecting)
  \/ \E d \in ClockSteps : DateAdvance(d)

SpecScroll == InitScroll /\ [][NextScroll]_vars

(***************************************************************************)
(* Overlays: the auth modal (auth-modal.js) and the profile popup          *)
(* (ProfilePopup in hotkeys.js) both write document.body.style.overflow.   *)
(***************************************************************************)
\* ProfilePopup.open(), from the profile entry of the navigation
PopupOpen ==
  /\ IF authLoaded /\ IsLoggedIn(user)
     THEN popup' = TRUE /\ overflow' = "hidden"
     ELSE UNCHANGED overlayVars
  /\ UNCHANGED <<twVars, envVars, modalVars, keyVars, scrollVars>>

\* ProfilePopup.close(), from its close button or its overlay
PopupClose ==
  /\ popup
  /\ popup' = FALSE
  /\ overflow' = ""
  /\ UNCHANGED <<twVars, envVars, modalVars, keyVars, scrollVars>>

\* an Escape keydown: the listener of AuthModal.init, then the one of
\* ProfilePopup.init
Escape ==
  /\ modal.active \/ popup
  /\ modal' = [modal EXCEPT !.active = FALSE]
  /\ popup' = FALSE
  /\ overflow' = ""
  /\ UNCHANGED <<twVars, envVars, lastSubmit, keyVars, scrollVars>>

InitOverlay == InitAuth

NextOverlay ==
  \/ (Construct \/ CallLogout) /\ UNCHANGED <<twVars, pageVars>>
  \/ Escape
  \/ ModalOpen
  \/ ModalClose
  \/ CloseTimerFire
  \/ \E e \in Emails, p \in Passwords : HandleLoginSubmit(e, p)
  \/ PopupOpen
  \/ PopupClose

SpecOverlay == InitOverlay /\ [][NextOverlay]_vars

(***************************************************************************)
(* Type invariant                                                          *)
(***************************************************************************)
TypeOK ==
  /\ phase \in {"constructed", "ready"}
  /\ nextId \in FirstId..(MaxTimers + 1)
  /\ timeoutIds \subseteq FirstId..MaxTimers
  /\ \A k \in 1..Len(timers) : timers[k].el \in 1..Len(elements)
  /\ \A k \in 1..(Len(timers) - 1) : timers[k].rem <= timers[k + 1].rem

(***************************************************************************)
(* Properties                                                              *)
(***************************************************************************)
Items == 1..Len(elements)
GroupOf(i) == SlideItems(elements, elements[i].slideElement)
LoopPending(q, i) == Outstanding(q, {"loop"}, i) # {}
ChainAlive(q, i) == Outstanding(q, {"start", "restart", "step"}, i) # {}
IsPrefix(a, b) == Len(a) <= Len(b) /\ a = SubSeq(b, 1, Len(a))
Full(els, i) == Len(els[i].currentText) = Len(els[i].fullText)
GroupFull(els, grp) == \A k \in 1..Len(grp) : Full(els, grp[k])
GroupLoopPending(q, els, grp) ==
  /\ GroupFull(els, grp)
  /\ \A k \in 1..Len(grp) : LoopPending(q, grp[k])

\* C1: after a completion step that finds every element of the group at full
\* length, every element of the group has a loop-restart timer outstanding.
C1_LoopArmedOnEveryCompletion ==
  (lastOp.op = "complete" /\ GroupFull(elements, GroupOf(lastOp.el)))
    => \A k \in 1..Len(GroupOf(lastOp.el)) :
         LoopPending(timers, GroupOf(lastOp.el)[k])

\* C2: a step that arms a loop-restart timer for an element finds every element
\* of that element's group at full length, before and after the step.
C2_ArmOnlyWhenAllDone ==
  [][\A k \in 1..Len(timers') :
       (timers'[k].kind = "loop" /\ timers'[k].id >= nextId)
         => /\ GroupFull(elements, GroupOf(timers'[k].el))
            /\ GroupFull(elements', GroupOf(timers'[k].el))]_vars

\* a two-element group has just been armed by a completion step
C2_Witness ==
  /\ lastOp.op = "complete" /\ lastOp.flag
  /\ Len(GroupOf(lastOp.el)) = 2
  /\ \A k \in 1..2 : LoopPending(timers, GroupOf(lastOp.el)[k])

\* C3: an element's loop handle is non-null exactly when a loop timer of that
\* element is outstanding, that timer is the one the handle names, and no
\* element has two outstanding loop timers.
C3_LoopHandleMatchesTimer ==
  \A i \in Items :
    /\ Cardinality(Outstanding(timers, {"loop"}, i)) <= 1
    /\ (elements[i].loopTimeout # Null) <=> LoopPending(timers, i)
    /\ \A k \in Outstanding(timers, {"loop"}, i) :
         timers[k].id = elements[i].loopTimeout

\* C4: a visibility trigger of a fully typed, loop-pending group cancels every
\* loop timer of the group, empties every element and schedules for each a
\* new start timer at staggerIndex * staggerDelay.
C4_ReentryRestartsGroup ==
  [][\A s \in Slides :
       (/\ lastOp'.op = "intersect" /\ lastOp'.flag /\ lastOp'.slide = s
        /\ GroupLoopPending(timers, elements, SlideItems(elements, s)))
         => \A k \in 1..Len(SlideItems(elements, s)) :
              LET i == SlideItems(elements, s)[k]
              IN /\ ~ LoopPending(timers', i)
                 /\ elements'[i].currentText = << >>
                 /\ elements'[i].textContent = << >>
                 /\ ~ elements'[i].cursor
                 /\ \E m \in 1..Len(timers') :
                      /\ timers'[m].id >= nextId
                      /\ timers'[m].kind = "start"
                      /\ timers'[m].el = i
                      /\ timers'[m].rem =
                           elements[i].staggerIndex * opts.staggerDelay]_vars

\* a trigger has just cancelled the loop timers of a two-element group
C4_Witness ==
  /\ lastOp.op = "intersect" /\ lastOp.flag /\ lastOp.n = 2
  /\ Len(SlideItems(elements, lastOp.slide)) = 2
  /\ \A k \in 1..2 :
       /\ elements[SlideItems(elements, lastOp.slide)[k]].currentText = << >>
       /\ Outstanding(timers, {"start"}, SlideItems(elements, lastOp.slide)[k]) # {}

\* C5: timeoutIds holds exactly the handles of the outstanding timers.
C5_PendingSetIsExact == timeoutIds = TimerIds(timers)

\* C6: destroy() is always possible, leaves timeoutIds empty, and a destroy()
\* directly after a destroy() changes nothing.
C6_DestroyIdempotent ==
  /\ [](ENABLED Destroy)
  /\ [](lastOp.op = "destroy" => timeoutIds = {})
  /\ [][(lastOp.op = "destroy" /\ lastOp'.op = "destroy")
          => UNCHANGED <<doc, opts, phase, elements, observed, timers,
                         timeoutIds, nextId>>]_vars

\* a second destroy() in a row, after timers had been scheduled
C6_Witness ==
  /\ lastOp.op = "destroy" /\ lastOp.flag
  /\ nextId > FirstId /\ timeoutIds = {}

\* C7: every outstanding timer is in timeoutIds, and after destroy() no timer
\* is outstanding.
C7_AllTimersTracked ==
  /\ TimerIds(timers) \subseteq timeoutIds
  /\ lastOp.op = "destroy" => Len(timers) = 0

\* destroy() has just cancelled at least two timers
C7_Witness ==
  /\ lastOp.op = "destroy" /\ lastOp.n >= 2
  /\ Len(timers) = 0

\* C8: while a chain of an element is alive its currentLength never drops,
\* a typing step adds exactly one character, and the element is full after
\* exactly len(fullText) typing steps from its start.
C8_MonotonicReveal ==
  [][\A i \in Items :
       /\ (ChainAlive(timers, i) /\ ChainAlive(timers', i))
            => Len(elements'[i].currentText) >= Len(elements[i].currentText)
       /\ (lastOp'.op = "type" /\ lastOp'.el = i)
            => /\ Len(elements'[i].currentText) = Len(elements[i].currentText) + 1
               /\ (Len(elements'[i].currentText) = Len(elements[i].fullText)
                     => steps'[i] = Len(elements[i].fullText))]_vars

\* C9: the revealed text is a prefix of fullText, of length 0..len(fullText).
C9_RevealedIsPrefix ==
  \A i \in Items :
    /\ Len(elements[i].currentText) \in 0..Len(elements[i].fullText)
    /\ IsPrefix(elements[i].currentText, elements[i].fullText)

\* two step callbacks of one element are pending and it has typed a character
C9_Witness ==
  \E i \in Items :
    /\ Cardinality(Outstanding(timers, {"step"}, i)) >= 2
    /\ Len(elements[i].currentText) >= 1
    /\ Len(elements[i].fullText) >= 2

\* C10: an element's first character appears no earlier than
\* staggerIndex * staggerDelay after the group's last visibility trigger, and
\* not while the start timer of an element earlier in the group is pending.
C10_StaggerOrder ==
  (lastOp.op = "type" /\ Len(elements[lastOp.el].currentText) = 1)
    => /\ sinceTrigger[elements[lastOp.el].slideElement]
            >= elements[lastOp.el].staggerIndex * opts.staggerDelay
       /\ \A k \in 1..Len(GroupOf(lastOp.el)) :
            elements[GroupOf(lastOp.el)[k]].staggerIndex
                < elements[lastOp.el].staggerIndex
              => Outstanding(timers, {"start"}, GroupOf(lastOp.el)[k]) = {}

Sink(i) == <<elements[i].textContent, elements[i].cursor>>
FirstChar(i) ==
  lastOp.op = "type" /\ lastOp.el = i /\ Len(elements[i].currentText) = 1
SecondChar(i) ==
  lastOp.op = "type" /\ lastOp.el = i /\ Len(elements[i].currentText) = 2
Completed(i) == lastOp.op = "complete" /\ lastOp.el = i

\* the times of the events of the first cycle of the timeline: first
\* characters (h0, y0), completion steps (c0, c1), arming and firing of the
\* loop timers, and the first characters after the restart (r0, r1)
Timeline(h0, y0, c0, c1, arm, fire, r0, r1) ==
  /\ (FirstChar(1) /\ now < opts.loopDelay)
       => now = h0 /\ Sink(1) = << <<"H">>, TRUE >>
  /\ (FirstChar(2) /\ now < opts.loopDelay)
       => now = y0 /\ Sink(2) = << <<"Y">>, TRUE >>
  /\ (Completed(1) /\ now < opts.loopDelay)
       => now = c0 /\ Sink(1) = << <<"H", "i">>, FALSE >>
  /\ (Completed(2) /\ now < opts.loopDelay)
       => now = c1 /\ Sink(2) = << <<"Y", "o">>, FALSE >>
  /\ (lastOp.op = "complete" /\ lastOp.flag /\ now < opts.loopDelay)
       => /\ now = arm
          /\ \A i \in Items : \E k \in Outstanding(timers, {"loop"}, i) :
               timers[k].rem = fire - arm
  /\ (lastOp.op = "loop" /\ now < 2 * opts.loopDelay) => now = fire
  /\ (FirstChar(1) /\ now \in opts.loopDelay..(2 * opts.loopDelay)) => now = r0
  /\ (FirstChar(2) /\ now \in opts.loopDelay..(2 * opts.loopDelay)) => now = r1

\* C11 (as stated): "H" at 5, "Y" at 10, "Hi" complete at 15, "Yo" complete
\* at 20, loop timers armed at 20 and fired at 120, restarts at 120 and 125.
C11_TimelineAsStated == Timeline(5, 10, 15, 20, 20, 120, 120, 125)

\* C11 (amended): "H" at 0, "Y" at 5, "Hi" and "Yo" with cursor at 10 and 15,
\* completion steps at 20 and 25, loop timers armed at 20 (by the completion
\* step of element 0) and fired at 120, restarts at 120 and 125.
C11_Timeline ==
  /\ Timeline(0, 5, 20, 25, 20, 120, 120, 125)
  /\ (SecondChar(1) /\ now < opts.loopDelay)
       => now = 10 /\ Sink(1) = << <<"H", "i">>, TRUE >>
  /\ (SecondChar(2) /\ now < opts.loopDelay)
       => now = 15 /\ Sink(2) = << <<"Y", "o">>, TRUE >>

\* element 1 has just restarted at 125, after element 0 restarted at 120
C11_Witness ==
  /\ now = 125 /\ FirstChar(2)
  /\ Sink(1) = << <<"H">>, TRUE >>

SlideOf(els, i) == els[i].slideElement
Callback(op) == op \in {"type", "complete", "loop", "skip"}

\* C12: a visibility trigger of one slide schedules timers only for elements
\* of that slide and leaves every element of another slide as it was; a step
\* or loop callback of an element leaves every element of another slide as
\* it was.
C12_NoCrossGroupInterference ==
  [][/\ \A i \in 1..Len(elements) :
          /\ (lastOp'.op = "intersect" /\ lastOp'.flag
                /\ SlideOf(elements, i) # lastOp'.slide)
               => elements'[i] = elements[i]
          /\ (Callback(lastOp'.op)
                /\ SlideOf(elements, i) # SlideOf(elements, lastOp'.el))
               => elements'[i] = elements[i]
     /\ (lastOp'.op = "intersect" /\ lastOp'.flag)
          => \A k \in 1..Len(timers') :
               timers'[k].id >= nextId
                 => SlideOf(elements, timers'[k].el) = lastOp'.slide]_vars

\* a slide was triggered while an element of another slide shows typed text
C12_Witness ==
  /\ lastOp.op = "intersect" /\ lastOp.flag
  /\ \E i \in Items :
       /\ SlideOf(elements, i) # lastOp.slide
       /\ Len(elements[i].currentText) >= 1
       /\ ChainAlive(timers, i)

C14_ReentryKeepsStepTimers ==
  [][(lastOp'.op = "intersect" /\ lastOp'.flag)
       => \A k \in 1..Len(timers) :
            (timers[k].kind # "loop"
               \/ SlideOf(elements, timers[k].el) # lastOp'.slide)
              => \E m \in 1..Len(timers') : timers'[m] = timers[k]]_vars

\* after a trigger, a step timer of the slide that is older than the new
\* start timers is still outstanding
C14_Witness ==
  /\ lastOp.op = "intersect" /\ lastOp.flag
  /\ \E k \in 1..Len(timers), m \in 1..Len(timers) :
       /\ timers[k].kind = "step" /\ timers[m].kind = "start"
       /\ timers[k].el = timers[m].el
       /\ SlideOf(elements, timers[k].el) = lastOp.slide
       /\ timers[k].id < timers[m].id

SinkReset(els, i) ==
  els[i].textContent = << >> /\ ~ els[i].cursor /\ els[i].currentText = << >>
SinkTyping(els, i) ==
  /\ els[i].cursor /\ els[i].textContent = els[i].currentText
  /\ Len(els[i].currentText) >= 1
  /\ IsPrefix(els[i].currentText, els[i].fullText)
SinkDone(els, i) ==
  /\ ~ els[i].cursor /\ els[i].textContent = els[i].fullText
  /\ els[i].currentText = els[i].fullText

\* C15: an element's sink is empty after a reset, a non-empty prefix of
\* fullText with the cursor while typing, or fullText without cursor; once it
\* shows fullText without cursor it keeps doing so until the next reset.
C15_SinkContent ==
  /\ [](\A i \in Items :
          SinkReset(elements, i) \/ SinkTyping(elements, i)
            \/ SinkDone(elements, i))
  /\ [][\A i \in 1..Len(elements) :
          SinkDone(elements, i)
            => SinkDone(elements', i) \/ SinkReset(elements', i)]_vars

\* a completion step has just removed the cursor of a two-character text
C15_Witness ==
  /\ lastOp.op = "complete"
  /\ SinkDone(elements, lastOp.el)
  /\ Len(elements[lastOp.el].fullText) = 2

Healthy(grp) == SelectSeq(grp, LAMBDA j : j \notin failed)

\* the elements of the group whose callbacks did not throw have all been
\* typed out and have run their completion steps
HealthyTyped(i) ==
  /\ i \notin failed
  /\ elements[i].isVisible
  /\ \A k \in 1..Len(Healthy(GroupOf(i))) :
       /\ Full(elements, Healthy(GroupOf(i))[k])
       /\ ~ ChainAlive(timers, Healthy(GroupOf(i))[k])

\* C16: after a step callback of one element has thrown, the other elements
\* of its group still go through loop-pending: once they are all typed out
\* and their completion steps have run, each has a loop timer outstanding.
C16_SiblingsUnaffected ==
  \A i \in Items : HealthyTyped(i) => LoopPending(timers, i)

MaxElements == 3

Triggered(i) == i \in Items /\ elements[i].isVisible

ShowsFull(i) == i \in Items /\ SinkDone(elements, i)

\* the loop timer of element i has just run
LoopFired(i) ==
  /\ lastOp.op = "loop" /\ lastOp.el = i
  /\ i \in Items
  /\ elements[i].currentText = << >>
  /\ elements[i].loopTimeout = Null
  /\ \E k \in 1..Len(timers) :
       /\ timers[k].kind = "restart" /\ timers[k].el = i
       /\ timers[k].rem = elements[i].staggerIndex * opts.staggerDelay

\* C17: once an element's slide has been triggered, with no further trigger
\* of it, no throwing callback and no destroy, the element shows its full
\* text without cursor again and again and its loop timer fires again and
\* again; every firing leaves currentText empty, loopTimeout null and a
\* restart timer of delay staggerIndex * staggerDelay.
C17_CycleForever ==
  /\ \A i \in 1..MaxElements :
       /\ [](Triggered(i) => <>ShowsFull(i))
       /\ [](Triggered(i) => <>LoopFired(i))
  /\ [](lastOp.op = "loop" => LoopFired(lastOp.el))

\* the loop timer of the second element of a slide has just run, after the
\* first element's, and both wait for their restart
C17_Witness ==
  \E i \in Items, j \in Items :
    /\ LoopFired(i)
    /\ elements[i].staggerIndex >= 1
    /\ elements[j].staggerIndex = 0
    /\ elements[j].slideElement = elements[i].slideElement
    /\ Outstanding(timers, {"restart"}, j) # {}

\* the elements of the page with a non-empty text and a container
Animatable(d) ==
  { i \in 1..Len(d) : Len(d[i].text) > 0 /\ d[i].slide # NoSlide }

TracksExactly ==
  /\ Len(elements) = Cardinality(Animatable(doc))
  /\ { elements[k].element : k \in Items } = Animatable(doc)
  /\ \A k \in Items :
       /\ elements[k].fullText = doc[elements[k].element].text
       /\ elements[k].slideElement = doc[elements[k].element].slide

SameGroupBefore(j, k) ==
  /\ elements[j].slideElement = elements[k].slideElement
  /\ elements[j].element < elements[k].element

\* staggerIndex grows with the document order inside a group
StaggerOrdered ==
  \A j \in Items, k \in Items :
    SameGroupBefore(j, k) => elements[j].staggerIndex < elements[k].staggerIndex

FirstOfGroup(k) == ~ \E j \in Items : SameGroupBefore(j, k)

\* C18 as stated: after init() the tracked elements are exactly the
\* animatable ones, and within each container their staggerIndex values
\* start at 0 and grow in document order.
C18_StaggerFromZero ==
  phase = "ready"
    => /\ TracksExactly
       /\ StaggerOrdered
       /\ \A k \in Items : FirstOfGroup(k) => elements[k].staggerIndex = 0

\* C18: after init() the tracked elements are exactly the animatable ones,
\* and an element's staggerIndex is the number of directive-bearing elements
\* of its container that precede it in the document, whether tracked or not;
\* so the values grow in document order and are unique within a group.
C18_StaggerIsPositionInContainer ==
  phase = "ready"
    => /\ TracksExactly
       /\ StaggerOrdered
       /\ \A k \in Items :
            elements[k].staggerIndex =
              Cardinality({ i \in 1..Len(doc) :
                              /\ doc[i].slide = elements[k].slideElement
                              /\ i < elements[k].element })

\* the first tracked element of a container has staggerIndex 1, because an
\* element with an empty text precedes it
C18_Witness ==
  /\ phase = "ready"
  /\ \E k \in Items : FirstOfGroup(k) /\ elements[k].staggerIndex = 1
  /\ Len(elements) < Len(doc)

\* C19: on a page without animatable element the engine stays inert: no
\* element is tracked, no container is observed, no timer is ever scheduled.
C19_InertWithoutElements ==
  Animatable(doc) = {}
    => /\ elements = << >>
       /\ observed = {}
       /\ timers = << >>
       /\ timeoutIds = {}
       /\ nextId = FirstId

\* init() has returned on a page whose elements have no text or no container
C19_Witness ==
  /\ phase = "ready"
  /\ Len(doc) >= 2
  /\ Animatable(doc) = {}
  /\ lastOp.op \in {"tick", "destroy"}

\* C20: once an AuthManager exists, the logged-in entries are shown and the
\* logged-out entries hidden exactly when isLoggedIn() is true, and the
\* reverse exactly when it is false, after every saveUser() and logout().
C20_NavigationMatchesLogin ==
  authLoaded => nav = UpdateNavigation(user)

\* C21: once saveUser() has returned true, an AuthManager constructed after
\* a reload that reads the storage is logged in with the same name, email
\* and loginTime; once logout() has returned true the item is absent from
\* the storage and an AuthManager constructed after a reload is logged out.
C21_SessionRoundTrip ==
  /\ (lastAuth.op = "logout" /\ lastAuth.ok) => storage = NoItem
  /\ (authLoaded /\ lastAuth.op = "new" /\ lastAuth.ok /\ persisted.known)
       => /\ user = persisted.user
          /\ IsLoggedIn(user) = (persisted.user # NoUser)

\* a session saved without a name has been loaded again after a reload
C21_Witness ==
  /\ authLoaded /\ lastAuth.op = "new" /\ lastAuth.ok
  /\ persisted.known
  /\ persisted.user # NoUser
  /\ user[1].name = Undefined
  /\ user[1].loginTime = <<"t", "2">>

\* the conditions the forms are said to require, on the submitted fields
LoginRequired(f) ==
  /\ Trim(f.email) # << >>
  /\ f.password # << >>
  /\ IsValidEmail(Trim(f.email))

RegisterRequired(f) ==
  /\ LoginRequired(f)
  /\ Trim(f.name) # << >>
  /\ Len(f.password) >= 8
  /\ f.password = f.confirm
  /\ f.terms

Required(f) == IF f.form = "login" THEN LoginRequired(f) ELSE RegisterRequired(f)

\* C22: a form submit calls saveUser only when the form's requirements are
\* met, and a submit that does not meet them leaves this.user, the stored
\* item and the modal as they were.
C22_SubmitOnlyWhenValid ==
  [][lastSubmit'.n # lastSubmit.n
       => /\ lastSubmit'.saved => Required(lastSubmit')
          /\ ~ Required(lastSubmit')
               => UNCHANGED <<user, storage, modal>>
          /\ (Required(lastSubmit') /\ authLoaded) => lastSubmit'.saved]_vars

\* a registration with a name, a valid email, an 8-character password, its
\* confirmation and the terms accepted has created the session
C22_Witness ==
  /\ lastSubmit.form = "register"
  /\ lastSubmit.saved
  /\ user # NoUser
  /\ modal.active
  /\ modal.closeTimers = 1

Dispatched == lastKey.n > 0 /\ lastKey.pending = 0

\* the links that carry the pressed key, whatever its case
Carrying ==
  { i \in 1..Len(page.links) :
      page.links[i].hotkey = lastKey.key
        \/ page.links[i].hotkey = ToLowerCase(lastKey.key) }

ClickedLinks == { lastKey.clicks[k].link : k \in 1..Len(lastKey.clicks) }

Hrefs == { page.links[i].href : i \in ClickedLinks }

\* C24: with [L] on both the login and the logout link, L pressed outside a
\* text field clicks the login link while logged out and the logout link
\* while logged in.
C24_ContextDependentL ==
  (Dispatched /\ authLoaded /\ ToLowerCase(lastKey.key) = "l"
     /\ lastKey.tag = "BODY")
    => Hrefs = IF lastKey.loggedIn THEN {"/logout"} ELSE {"/login"}

\* C25: at most one frame callback requested by onScroll is pending, and a
\* frame runs updateParallax at most once for scroll events.
C25_OneFramePending == parallax.frames <= 1 /\ parallax.ranInFrame <= 1

\* C26: any two invocations of setArtSymbol made from updateParallax are more
\* than 420 ms apart, and so are any two changes of the symbol they make.
C26_SwitchesThrottled ==
  \A j \in 1..Len(parallax.calls) : \A k \in (j + 1)..Len(parallax.calls) :
    parallax.calls[k].t - parallax.calls[j].t > SwitchInterval

\* the symbol was changed twice by updateParallax
C26_Witness ==
  /\ Len(parallax.calls) >= 2
  /\ parallax.calls[1].changed /\ parallax.calls[2].changed
  /\ parallax.calls[2].t - parallax.calls[1].t = SwitchInterval + 1

\* an item reported intersecting is visible and no longer observed, and no
\* item loses is-visible in this step
OneShot ==
  /\ reveal'.reported \subseteq reveal'.visible
  /\ reveal'.reported \cap reveal'.observed = {}
  /\ reveal.visible \subseteq reveal'.visible

ReducedReady == parallax'.phase = "ready" /\ parallax'.prefersReducedMotion

\* C27: an item gets is-visible when first reported intersecting, is
\* unobserved from then on and never hidden again; with reduced motion every
\* item is visible after initialisation and no scroll, resize or intersection
\* handler is installed.
C27_RevealOneShot ==
  [][/\ OneShot
     /\ ReducedReady => /\ reveal'.visible = RevealItems
                        /\ parallax'.handlers = {}]_vars

\* C27 as the code has it: with reduced motion the copy in auth-modal.js
\* still has its debugLogLayout resize listener, and nothing else is installed.
C27_RevealOneShotButDebugResize ==
  [][/\ OneShot
     /\ ReducedReady
          => /\ reveal'.visible = RevealItems
             /\ reveal'.observed = {}
             /\ parallax'.handlers =
                  IF parallax'.copy = "auth-modal.js"
                  THEN {"resize:debugLogLayout"} ELSE {}]_vars

\* reduced motion in the auth-modal.js copy: all items visible after a resize
C27_Witness ==
  /\ parallax.phase = "ready" /\ parallax.prefersReducedMotion
  /\ parallax.copy = "auth-modal.js"
  /\ reveal.visible = RevealItems
  /\ parallax.handlers = {"resize:debugLogLayout"}

\* C28: every tracked element has at most one outstanding start or step
\* timer, so at most one chain is alive per element.
C28_OneChainPerElement ==
  \A i \in Items :
    Cardinality(Outstanding(timers, {"start", "step"}, i)) <= 1

\* C29: once destroy() has been called no timer is scheduled any more and no
\* element's currentLength or sink content changes.
C29_QuiescentAfterDestroy ==
  [][destroyed
       => /\ nextId' = nextId
          /\ TimerIds(timers') \subseteq TimerIds(timers)
          /\ \A i \in Items :
               /\ Len(elements'[i].currentText) = Len(elements[i].currentText)
               /\ elements'[i].textContent = elements[i].textContent
               /\ elements'[i].cursor = elements[i].cursor]_vars

\* C30: a saveUser() or logout() that returns false leaves the in-memory
\* user as it was, and after every call the in-memory user is the one that
\* storage holds.
C30_FailedCallKeepsSession ==
  [][lastAuth'.op \in {"saveUser", "logout"}
       => /\ ~ lastAuth'.ok
               => /\ user' = user
                  /\ IsLoggedIn(user') = IsLoggedIn(user)
          /\ persisted'.known => user' = persisted'.user]_vars

\* C31: whenever the auth modal or the profile popup is active the body's
\* overflow is hidden, so scrolling is unlocked only when neither is active.
C31_ScrollLockedWhileOverlay ==
  (modal.active \/ popup) => overflow = "hidden"

====
